---- MODULE Spec2Model ----
(***************************************************************************)
(* Model of app.py, the Streamlit pitch-based gender classifier.           *)
(*                                                                         *)
(* Streamlit executes the script top to bottom once per user interaction   *)
(* ("page run").  The model follows one session: the user acts on the      *)
(* widgets of the rendered page (slider, recorder, button) while the       *)
(* script is idle, and every interaction starts a page run, which walks    *)
(* through the sidebar, the Record tab and the Results tab.                *)
(*                                                                         *)
(* Abstractions                                                            *)
(*  - a recording is the sequence of its analysis frames; each frame is    *)
(*    silent, unvoiced or voiced, and carries the whole-Hz frequency the   *)
(*    YIN search settles on for it;                                        *)
(*  - a float is a record [nan, ...]; the mean pitch keeps the exact       *)
(*    quotient sum/cnt, so comparisons are done by cross-multiplication;   *)
(*  - librosa.yin is modelled for the two behaviours released versions     *)
(*    have on 2-D input: rejecting it (ParameterError) or treating every   *)
(*    row as a channel.                                                    *)
(***************************************************************************)
EXTENDS Integers, Sequences, FiniteSets, TLC

\* ------------------------------------------------------------------ bounds
MaxFrames == 2      \* longest recording, in analysis frames
Reach == 0          \* slider positions explored on each side of the default

\* ------------------------------------------------------- program constants
DefaultThreshold == 165
MinThreshold == 50
MaxThreshold == 300
FMin == 50
FMax == 500
FrameLength == 2048
HopLength == 512

\* ------------------------------------------------------------------ inputs
SampleRates == {44100}
Pitches == {DefaultThreshold, DefaultThreshold + 1}

Min(a, b) == IF a < b THEN a ELSE b
Max(a, b) == IF a > b THEN a ELSE b
CeilDiv(a, b) == (a + b - 1) \div b

\* positions of the slider the user can drag it to (min_value..max_value, step 1)
SliderPositions(lo, hi) ==
    {v \in lo..hi : v = lo \/ v = hi
                    \/ (v >= DefaultThreshold - Reach /\ v <= DefaultThreshold + Reach)}

\* an aperiodic frame has its global minimum at some candidate period
UnvoicedPicks == {FMax \div 2}

Frames ==
    {[kind |-> "silent", hz |-> 0]}
      \cup [kind : {"voiced"}, hz : Pitches]
      \cup [kind : {"unvoiced"}, hz : UnvoicedPicks]

FrameSeqs == UNION {[1..n -> Frames] : n \in 1..MaxFrames}

\* AudioSegment values the recorder can return
EmptySegment == [channels |-> 1, frame_rate |-> 44100, frames |-> <<>>]
Recordings == [channels : {1, 2}, frame_rate : SampleRates, frames : FrameSeqs]

\* -------------------------------------------------------------------- floats
NaN == [nan |-> TRUE, sum |-> 0, cnt |-> 0]
Hz(f) == [nan |-> FALSE, hz |-> f]
NaNFrame == [nan |-> TRUE, hz |-> 0]
IsNaN(x) == x.nan

VARIABLES
    pc,              \* position of the script in the current page run
    session_state,   \* st.session_state: a function on the keys present
    slider,          \* the sidebar slider widget Streamlit keeps between runs
    button_pressed,  \* the "Record Another Sample" click carried by this run
    librosa,         \* behaviour of the installed librosa.yin on 2-D input
    threshold,       \* local: value returned by st.slider
    wav_bytes,       \* local: AudioSegment returned by audiorecorder
    data,            \* local: (data, fs) returned by sf.read
    f0,              \* local: per-frame estimates returned by librosa.yin
    mean_pitch,      \* local
    gender,          \* local
    page,            \* what the Results tab and the sidebar show
    yin_arg,         \* history: the array handed to librosa.yin in this run
    raised,          \* history: exception raised inside the try block
    escaped,         \* history: an exception left the try block uncaught
    cmp_threshold,   \* history: right operand of the comparison on line 111
    last_selected,   \* history: slider position the user chose last
    awaiting         \* history: sample was discarded, none recorded since

vars == <<pc, session_state, slider, button_pressed, librosa, threshold,
          wav_bytes, data, f0, mean_pitch, gender, page, yin_arg, raised,
          escaped, cmp_threshold, last_selected, awaiting>>

locals == <<threshold, wav_bytes, data, f0, mean_pitch, gender>>

history == <<yin_arg, raised, escaped, cmp_threshold>>

NoData == [ndim |-> 0, rows |-> <<>>, fs |-> 0]
NoSlider == [registered |-> FALSE, value_arg |-> 0, value |-> 0]
BlankPage == [results |-> "none", pitch |-> -1, gender |-> "",
              threshold_used |-> -1, button |-> FALSE]

\* ------------------------------------------------------------ session state
Has(ss, key) == key \in DOMAIN ss

Get(ss, key, default) == IF Has(ss, key) THEN ss[key] ELSE default

Put(ss, key, value) ==
    [k \in DOMAIN ss \cup {key} |-> IF k = key THEN value ELSE ss[k]]

\* mutant of Pop: the entry is left in place
PopKeeps(ss, key) == ss

Pop(ss, key) == [k \in DOMAIN ss \ {key} |-> ss[k]]

\* ------------------------------------------------------------------ widgets
\* st.slider without a key: Streamlit identifies the widget by its arguments,
\* so a call whose value= differs from the one the widget on the page was
\* built with creates a new widget that starts at value=; otherwise the
\* widget returns the position the user left it in.
StSlider(w, lo, hi, value) ==
    IF w.registered /\ w.value_arg = value
    THEN w
    ELSE [registered |-> TRUE, value_arg |-> value, value |-> value]

\* audiorecorder(..., key=k): registers the component under k (its value
\* defaults to the empty segment) and returns the value held under k.
Audiorecorder(ss, key) == IF Has(ss, key) THEN ss ELSE Put(ss, key, EmptySegment)

\* bool(AudioSegment): a segment of length 0 is falsy
Truthy(seg) == Len(seg.frames) > 0

\* ----------------------------------------------------------- Results tab
\* mutant of NoRecording: `and` in place of `or`
NoRecordingAnd(ss, wav) == ~Has(ss, "gender_sample") /\ ~Truthy(wav)

NoRecording(ss, wav) == ~Has(ss, "gender_sample") \/ ~Truthy(wav)

\* wav_bytes.export(...) ; sf.read(wav_io): mono decodes to shape (n,),
\* stereo to shape (n, 2); fs is the segment's frame rate
SfRead(seg) ==
    [ndim |-> IF seg.channels = 1 THEN 1 ELSE 2,
     rows |-> seg.frames,
     fs   |-> seg.frame_rate]

MinPeriod(sr, fmax) == Max(sr \div fmax, 1)
MaxPeriod(sr, fmin) == Min(CeilDiv(sr, fmin), FrameLength - (FrameLength \div 2) - 1)

\* the frequency librosa.yin reports for one analysis frame.  YIN has no
\* unvoiced marker: an all-zero frame has a flat difference function, whose
\* global minimum is the shortest period; a row of a 2-D array taken as a
\* channel is two samples between zero padding, whose normalised difference
\* decreases to the longest period.
FrameEstimate(frame, ndim, sr, fmin, fmax) ==
    IF frame.kind = "silent" THEN sr \div MinPeriod(sr, fmax)
    ELSE IF ndim = 2 THEN sr \div MaxPeriod(sr, fmin)
    ELSE frame.hz

\* librosa.yin(y, fmin, fmax, sr): [exc, f0]
Yin(y, fmin, fmax, sr, lib) ==
    IF y.ndim = 2 /\ lib = "mono_only"
    THEN [exc |-> "ParameterError", f0 |-> <<>>]
    ELSE [exc |-> "",
          f0  |-> [i \in 1..Len(y.rows) |->
                     Hz(FrameEstimate(y.rows[i], y.ndim, sr, fmin, fmax))]]

\* mutant of Caught: a handler for ValueError only
CaughtValueError(exc) == exc = "ValueError"

\* `except Exception` catches every exception class yin can raise
Caught(exc) == TRUE

RECURSIVE SumZeroed(_)
\* sum of the track with NaN entries replaced by 0
SumZeroed(t) ==
    IF t = <<>> THEN 0
    ELSE (IF Head(t).nan THEN 0 ELSE Head(t).hz) + SumZeroed(Tail(t))

RECURSIVE CountNaN(_)
CountNaN(t) ==
    IF t = <<>> THEN 0
    ELSE (IF Head(t).nan THEN 1 ELSE 0) + CountNaN(Tail(t))

\* mutant of NanMean: NaN entries are zeroed but still counted
NanMeanCountsAll(t) ==
    IF Len(t) = 0 THEN NaN
    ELSE [nan |-> FALSE, sum |-> SumZeroed(t), cnt |-> Len(t)]

\* float(np.nanmean(f0)): sum of the zero-filled track over the number of
\* entries that are not NaN; 0/0 is NaN
NanMean(t) ==
    LET cnt == Len(t) - CountNaN(t)
    IN IF cnt = 0 THEN NaN
       ELSE [nan |-> FALSE, sum |-> SumZeroed(t), cnt |-> cnt]

\* mutant of Greater: >= in place of >
GreaterOrEqual(m, thr) == m.sum >= thr * m.cnt

\* mean_pitch > threshold, on the exact quotient
Greater(m, thr) == m.sum > thr * m.cnt

\* "Female" if mean_pitch > threshold else "Male"
Gender(m, thr) == IF Greater(m, thr) THEN "Female" ELSE "Male"

\* f"{mean_pitch:.1f}", in tenths of a Hz (round half to even)
Format1f(m) ==
    LET q == (10 * m.sum) \div m.cnt
        r == (10 * m.sum) % m.cnt
    IN IF 2 * r > m.cnt THEN q + 1
       ELSE IF 2 * r = m.cnt THEN q + (q % 2)
       ELSE q

\* mutant of ThresholdUsed: the default is shown, not the value compared
ThresholdUsedDefault(thr) == DefaultThreshold

\* f"*Threshold used:* **{threshold} Hz**"
ThresholdUsed(thr) == thr

\* --------------------------------------------------------------- page runs
\* a page run starts: fresh locals, the page is rendered anew
BeginRun(ss, sl, pressed, selected, waiting) ==
    /\ pc' = "sidebar"
    /\ session_state' = ss
    /\ slider' = sl
    /\ button_pressed' = pressed
    /\ last_selected' = selected
    /\ awaiting' = waiting
    /\ threshold' = 0
    /\ wav_bytes' = EmptySegment
    /\ data' = NoData
    /\ f0' = <<>>
    /\ mean_pitch' = NaN
    /\ gender' = ""
    /\ page' = BlankPage
    /\ yin_arg' = NoData
    /\ raised' = ""
    /\ escaped' = FALSE
    /\ cmp_threshold' = 0
    /\ UNCHANGED librosa

\* the run is over: one-shot widget values are gone
EndRun == pc' = "idle" /\ button_pressed' = FALSE

Init ==
    /\ pc = "sidebar"
    /\ session_state = [k \in {} |-> 0]
    /\ slider = NoSlider
    /\ button_pressed = FALSE
    /\ librosa \in {"mono_only", "multichannel"}
    /\ threshold = 0
    /\ wav_bytes = EmptySegment
    /\ data = NoData
    /\ f0 = <<>>
    /\ mean_pitch = NaN
    /\ gender = ""
    /\ page = BlankPage
    /\ yin_arg = NoData
    /\ raised = ""
    /\ escaped = FALSE
    /\ cmp_threshold = 0
    /\ last_selected = DefaultThreshold
    /\ awaiting = FALSE

\* lines 48-60
Sidebar ==
    /\ pc = "sidebar"
    /\ LET default_threshold == Get(session_state, "threshold", DefaultThreshold)
           w == StSlider(slider, MinThreshold, MaxThreshold, default_threshold)
       IN /\ slider' = w
          /\ threshold' = w.value
          /\ session_state' = Put(session_state, "threshold", w.value)
    /\ pc' = "record"
    /\ UNCHANGED <<button_pressed, librosa, wav_bytes, data, f0, mean_pitch,
                   gender, page, history, last_selected, awaiting>>

\* lines 70-85
RecordTab ==
    /\ pc = "record"
    /\ session_state' = Audiorecorder(session_state, "gender_sample")
    /\ wav_bytes' = session_state'["gender_sample"]
    /\ pc' = "results"
    /\ UNCHANGED <<slider, button_pressed, librosa, threshold, data, f0,
                   mean_pitch, gender, page, history, last_selected, awaiting>>

\* lines 88-91
ResultsTab ==
    /\ pc = "results"
    /\ IF NoRecording(session_state, wav_bytes)
       THEN /\ page' = [page EXCEPT !.results = "info"]
            /\ EndRun
       ELSE /\ pc' = "decode"
            /\ UNCHANGED <<page, button_pressed>>
    /\ UNCHANGED <<session_state, slider, librosa, locals, history,
                   last_selected, awaiting>>

\* lines 93-99
Decode ==
    /\ pc = "decode"
    /\ data' = SfRead(wav_bytes)
    /\ pc' = "yin"
    /\ UNCHANGED <<session_state, slider, button_pressed, librosa, threshold,
                   wav_bytes, f0, mean_pitch, gender, page, history,
                   last_selected, awaiting>>

\* lines 102-103, 105-106
CallYin ==
    /\ pc = "yin"
    /\ yin_arg' = data
    /\ LET out == Yin(data, FMin, FMax, data.fs, librosa)
       IN /\ raised' = out.exc
          /\ IF out.exc = ""
             THEN /\ f0' = out.f0
                  /\ pc' = "nanmean"
                  /\ UNCHANGED <<mean_pitch, escaped, page, button_pressed>>
             ELSE IF Caught(out.exc)
             THEN /\ mean_pitch' = NaN
                  /\ pc' = "classify"
                  /\ UNCHANGED <<f0, escaped, page, button_pressed>>
             ELSE /\ escaped' = TRUE
                  /\ page' = [page EXCEPT !.results = "traceback"]
                  /\ EndRun
                  /\ UNCHANGED <<f0, mean_pitch>>
    /\ UNCHANGED <<session_state, slider, librosa, threshold, wav_bytes, data,
                   gender, cmp_threshold, last_selected, awaiting>>

\* line 104
Reduce ==
    /\ pc = "nanmean"
    /\ mean_pitch' = NanMean(f0)
    /\ pc' = "classify"
    /\ UNCHANGED <<session_state, slider, button_pressed, librosa, threshold,
                   wav_bytes, data, f0, gender, page, history, last_selected,
                   awaiting>>

\* lines 108-117
Classify ==
    /\ pc = "classify"
    /\ IF IsNaN(mean_pitch)
       THEN /\ page' = [page EXCEPT !.results = "error"]
            /\ EndRun
            /\ UNCHANGED <<gender, cmp_threshold>>
       ELSE /\ gender' = Gender(mean_pitch, threshold)
            /\ cmp_threshold' = threshold
            /\ page' = [results |-> "result",
                        pitch |-> Format1f(mean_pitch),
                        gender |-> gender',
                        threshold_used |-> ThresholdUsed(threshold),
                        button |-> TRUE]
            /\ pc' = "button"
            /\ UNCHANGED button_pressed
    /\ UNCHANGED <<session_state, slider, librosa, threshold, wav_bytes, data,
                   f0, mean_pitch, yin_arg, raised, escaped, last_selected,
                   awaiting>>

\* lines 119-121
Button ==
    /\ pc = "button"
    /\ IF button_pressed
       THEN BeginRun(Pop(session_state, "gender_sample"), slider, FALSE,
                     last_selected, TRUE)
       ELSE /\ EndRun
            /\ UNCHANGED <<session_state, slider, librosa, locals, page,
                           history, last_selected, awaiting>>

\* ------------------------------------------------------------- user events
\* the user drags the sidebar slider to a new position
MoveSlider ==
    /\ pc = "idle"
    /\ \E v \in SliderPositions(MinThreshold, MaxThreshold) \ {slider.value} :
          BeginRun(session_state, [slider EXCEPT !.value = v], FALSE, v, awaiting)

\* the user records a sample with the recorder component
Record ==
    /\ pc = "idle"
    /\ \E rec \in Recordings :
          BeginRun(Put(session_state, "gender_sample", rec), slider, FALSE,
                   last_selected, FALSE)

\* the user clicks "Record Another Sample"
ClickButton ==
    /\ pc = "idle"
    /\ page.button
    /\ BeginRun(session_state, slider, TRUE, last_selected, awaiting)

Next ==
    \/ Sidebar
    \/ RecordTab
    \/ ResultsTab
    \/ Decode
    \/ CallYin
    \/ Reduce
    \/ Classify
    \/ Button
    \/ MoveSlider
    \/ Record
    \/ ClickButton

Spec == Init /\ [][Next]_vars

TypeOK ==
    /\ pc \in {"idle", "sidebar", "record", "results", "decode", "yin",
               "nanmean", "classify", "button"}
    /\ DOMAIN session_state \subseteq {"threshold", "gender_sample"}
    /\ gender \in {"", "Male", "Female"}

\* ------------------------------------------- the reduction as a function
\* Specification for np.nanmean taken on its own: the script stands at
\* line 104 with an arbitrary float track in f0 (NaN entries included), a
\* threshold the slider can return, and runs on to the end of the page run.
TrackValues == {NaNFrame} \cup {Hz(p) : p \in Pitches}

Tracks == UNION {[1..n -> TrackValues] : n \in 0..MaxFrames}

InitMean ==
    /\ pc = "nanmean"
    /\ f0 \in Tracks
    /\ threshold \in SliderPositions(MinThreshold, MaxThreshold)
    /\ wav_bytes \in {r \in Recordings : r.channels = 1 /\ Len(r.frames) = 1
                                          /\ r.frames[1].kind = "unvoiced"}
    /\ session_state = Put(Put([k \in {} |-> 0], "threshold", threshold),
                           "gender_sample", wav_bytes)
    /\ slider = [registered |-> TRUE, value_arg |-> threshold, value |-> threshold]
    /\ button_pressed = FALSE
    /\ librosa = "multichannel"
    /\ data = SfRead(wav_bytes)
    /\ mean_pitch = NaN
    /\ gender = ""
    /\ page = BlankPage
    /\ yin_arg = data
    /\ raised = ""
    /\ escaped = FALSE
    /\ cmp_threshold = 0
    /\ last_selected = threshold
    /\ awaiting = FALSE

NextMean == Reduce \/ Classify \/ Button

SpecMean == InitMean /\ [][NextMean]_vars

\* ------------------------------------------------------------------ claims
InRun == pc \in {"decode", "yin", "nanmean", "classify", "button"}

\* a classification request has run to its outcome
Outcome == pc \in {"button", "idle"} /\ page.results \in {"result", "error"}

Label == IF page.results = "error" THEN "Undetermined" ELSE page.gender

\* C1: a finished request carries exactly one label; it is Female iff the
\* mean pitch is real and strictly above the threshold, Male iff it is real
\* and at most the threshold (a tie is Male), Undetermined iff it is NaN;
\* the threshold is within [50, 300].
C1_LabelMatchesComparison ==
    Outcome =>
        /\ threshold \in MinThreshold..MaxThreshold
        /\ Label \in {"Female", "Male", "Undetermined"}
        /\ Label = "Female" <=>
              (~mean_pitch.nan /\ mean_pitch.sum - threshold * mean_pitch.cnt > 0)
        /\ Label = "Male" <=>
              (~mean_pitch.nan /\ mean_pitch.sum - threshold * mean_pitch.cnt <= 0)
        /\ Label = "Undetermined" <=> mean_pitch.nan

C1_Witness ==
    /\ Outcome
    /\ ~mean_pitch.nan
    /\ mean_pitch.sum = threshold * mean_pitch.cnt
    /\ Label = "Male"

\* C3: an exception raised inside pitch estimation never leaves the try
\* block; the request ends with mean pitch NaN and the "could not detect
\* pitch" message, and shows no Male/Female label.
C3_EstimationErrorDegrades ==
    /\ ~escaped
    /\ page.results # "traceback"
    /\ raised # "" =>
          /\ pc \in {"classify", "idle"}
          /\ mean_pitch.nan
          /\ gender = ""
          /\ page.gender = ""
          /\ pc = "idle" => page.results = "error"

C3_Witness ==
    /\ pc = "idle"
    /\ raised = "ParameterError"
    /\ page.results = "error"

\* C4 (as claimed): a request on a buffer that is silent, shorter than one
\* analysis frame, or unvoiced in every frame ends with mean pitch NaN and
\* the "could not detect pitch" message, without a label or a numeric pitch.
AllOfKind(seg, kind) == \A i \in 1..Len(seg.frames) : seg.frames[i].kind = kind

\* fewer samples than frame_length: 1 + n // hop_length frames with n < frame_length
TooShort(seg) == Len(seg.frames) - 1 < FrameLength \div HopLength

Undetectable(seg) ==
    /\ Truthy(seg)
    /\ AllOfKind(seg, "silent") \/ AllOfKind(seg, "unvoiced") \/ TooShort(seg)

C4_UndetectableIsReported ==
    (Outcome /\ Undetectable(wav_bytes)) =>
        /\ mean_pitch.nan
        /\ page.results = "error"
        /\ page.gender = ""
        /\ page.pitch = -1

\* C5 (as claimed): the array handed to the pitch estimator is always
\* single-channel; a decoded buffer with two channels is averaged first.
C5_EstimatorInputIsMono ==
    yin_arg # NoData => yin_arg.ndim = 1

\* C6: the mean pitch is the sum of the real entries of the track over
\* their number, and it is NaN iff the track has no real entry.
IsReal(e) == ~e.nan

RECURSIVE SumHz(_)
SumHz(t) == IF Len(t) = 0 THEN 0 ELSE t[1].hz + SumHz(SubSeq(t, 2, Len(t)))

C6_MeanOverRealFrames ==
    (pc \in {"classify", "button"} /\ raised = "") =>
        LET real == SelectSeq(f0, IsReal)
        IN /\ mean_pitch.nan <=> Len(real) = 0
           /\ Len(real) > 0 =>
                 /\ mean_pitch.cnt = Len(real)
                 /\ mean_pitch.sum = SumHz(real)

C6_Witness ==
    /\ pc = "classify"
    /\ \E i \in 1..Len(f0) : f0[i].nan
    /\ \E i \in 1..Len(f0) : ~f0[i].nan
    /\ ~mean_pitch.nan

\* C7 (as claimed): once the sidebar has run, the threshold is within
\* [50, 300], it is the position the user chose last (165 if the user never
\* moved the slider), it is what session state holds, and it is the value
\* the comparison of the run used.
C7_ThresholdIsLastSelected ==
    pc # "sidebar" =>
        /\ threshold \in MinThreshold..MaxThreshold
        /\ threshold = last_selected
        /\ session_state["threshold"] = threshold
        /\ page.results = "result" => cmp_threshold = threshold

\* C8: decoding, estimation and classification run to their outcome without
\* a new run starting, and write neither the threshold nor its
\* session-state entry nor the slider; the "Threshold used" value shown
\* with a result is the value the comparison used.
C8_StepsKeepThreshold ==
    InRun /\ pc # "button" =>
        /\ threshold' = threshold
        /\ session_state'["threshold"] = session_state["threshold"]
        /\ slider' = slider
        /\ pc' # "sidebar"

C8_ShownIsCompared ==
    page.results = "result" =>
        /\ page.threshold_used = cmp_threshold
        /\ cmp_threshold = threshold
        /\ session_state["threshold"] = threshold

C8_ThresholdReadOnly == [][C8_StepsKeepThreshold]_vars /\ []C8_ShownIsCompared

C8_Witness ==
    /\ pc = "idle"
    /\ page.results = "result"
    /\ page.threshold_used # DefaultThreshold
    /\ page.threshold_used = cmp_threshold

\* C9: a run decodes, estimates and classifies only if session state has a
\* gender_sample entry and the recorder returned a non-empty recording; any
\* other run shows "No recording detected" and no pitch, label or error.
HasRecording == Has(session_state, "gender_sample") /\ Len(wav_bytes.frames) > 0

C9_NoRecordingNoResult ==
    /\ InRun => HasRecording
    /\ (pc = "idle" /\ ~HasRecording) =>
          /\ page.results = "info"
          /\ page.pitch = -1
          /\ page.gender = ""
          /\ yin_arg = NoData
          /\ gender = ""
    /\ (pc = "idle" /\ HasRecording) => page.results # "info"

C9_Witness ==
    /\ pc = "idle"
    /\ Has(session_state, "gender_sample")
    /\ Len(wav_bytes.frames) = 0
    /\ page.results = "info"

\* C10: the "Record Another Sample" button is on the page only with a Male
\* or Female result; the run that carries its click removes gender_sample
\* from session state, keeps the stored threshold and reruns; from then on
\* no result is shown until a new recording is captured.
C10_ButtonOnlyWithLabel ==
    /\ page.button => (page.results = "result" /\ page.gender \in {"Male", "Female"})
    /\ page.results \in {"info", "error"} => ~page.button
    /\ awaiting => page.results \in {"none", "info"}

C10_ClickDiscards ==
    (pc = "button" /\ button_pressed) =>
        /\ ~Has(session_state', "gender_sample")
        /\ session_state'["threshold"] = session_state["threshold"]
        /\ pc' = "sidebar"
        /\ awaiting'

C10_RecordAnother == []C10_ButtonOnlyWithLabel /\ [][C10_ClickDiscards]_vars

C10_Witness ==
    /\ awaiting
    /\ pc = "idle"
    /\ page.results = "info"
    /\ session_state["threshold"] # DefaultThreshold

====
